---- MODULE Spec2Model ----
(***************************************************************************)
(* A model of teamleader/api.py: the Teamleader client, its request        *)
(* function, the per-operation payload construction and the two contact    *)
(* iterators.                                                              *)
(*                                                                         *)
(* Python values are records [t |-> type name, ...content]; a dict with    *)
(* string keys (a payload, a frame's locals) is a function from strings to *)
(* such values; a dict whose keys may be of any type (custom_fields) is    *)
(* the sequence of its <<key, value>> items.                               *)
(***************************************************************************)
EXTENDS Integers, Sequences, FiniteSets, TLC

VARIABLES
    defaultData,  \* the one dict object behind _request's default data={}
    pc,           \* single caller: "idle" | "done"
    call,         \* single caller: the method call made, [op, self, args]
    handed,       \* single caller: the payloads handed to _request, in order
    posts,        \* single caller: the POSTs issued during the call, in order
    outcome,      \* single caller: what the call returned or raised
    gen,          \* the generator object of get_contacts / get_contacts_by_company
    served,       \* the pages the server answered to the generator, in order
    yielded,      \* the records the generator yielded, in order
    requests,     \* the POSTs the generator issued, in order
    tpc,          \* per thread: position inside the method / _request
    tdata,        \* per thread: which dict `data` is bound to, and a fresh dict's content
    wire          \* per thread: the POST its last call put on the wire, and the outcome

varsOps == <<pc, call, handed, posts, outcome>>
varsGen == <<gen, served, yielded, requests>>
varsThr == <<tpc, tdata, wire>>
vars == <<defaultData, pc, call, handed, posts, outcome, gen, served, yielded,
          requests, tpc, tdata, wire>>

----------------------------------------------------------------------------
(* Bounds of the model *)

MaxSet == 2        \* how many arguments a caller sets away from their defaults
MaxPages == 2      \* how many non-empty pages the server holds at most
MaxPageLen == 2    \* how many records a served page holds at most

----------------------------------------------------------------------------
(* Python values *)

\* s: the text of a str; n: the number of an int, float, bool, date or
\* datetime; l: the elements of a list of strings; items: the <<key, value>>
\* items of a dict; name: the object a reference points to
Value(t, s, n, l, items, name) ==
    [t |-> t, s |-> s, n |-> n, l |-> l, items |-> items, name |-> name]
None == Value("NoneType", "", 0, <<>>, <<>>, "")
StrV(s) == Value("str", s, 0, <<>>, <<>>, "")
IntV(n) == Value("int", "", n, <<>>, <<>>, "")
FloatV(n) == Value("float", "", n, <<>>, <<>>, "")
BoolV(b) == Value("bool", "", IF b THEN 1 ELSE 0, <<>>, <<>>, "")
ListV(l) == Value("list", "", 0, l, <<>>, "")
DictV(items) == Value("dict", "", 0, <<>>, items, "")
DateV(d) == Value("date", "", d, <<>>, <<>>, "")
DateTimeV(d) == Value("datetime", "", d, <<>>, <<>>, "")
Object(name) == Value("Teamleader", "", 0, <<>>, <<>>, name)

EmptyDict == <<>>
Put(d, k, val) == (k :> val) @@ d
Del(d, k) == [x \in DOMAIN d \ {k} |-> d[x]]
Update(d, e) == e @@ d

\* int(x) on a bool or an int
int(x) == IntV(x.n)

\* ','.join(l) for a list of strings
RECURSIVE join(_)
join(l) ==
    IF Len(l) = 0 THEN ""
    ELSE IF Len(l) = 1 THEN l[1]
    ELSE l[1] \o "," \o join(Tail(l))

\* time.mktime(d.timetuple()): seconds since the epoch at local midnight of day d
SecondsPerDay == 86400
mktime(d) == FloatV(d.n * SecondsPerDay)

\* str.upper() / str.lower() on the codes the callers pass
upper(s) ==
    CASE s = "be" -> "BE" [] s = "nl" -> "NL" [] s = "zz" -> "ZZ" [] OTHER -> s
lower(s) ==
    CASE s = "NL" -> "nl" [] s = "FR" -> "fr" [] s = "QQ" -> "qq" [] OTHER -> s

\* pycountry's tables: get() raises when the code is not in the table
Alpha2Codes == {"BE", "NL"}
Iso639_1Codes == {"nl", "fr"}
countries_get_raises(code) == code \notin Alpha2Codes
languages_get_raises(code) == code \notin Iso639_1Codes

----------------------------------------------------------------------------
(* The clients: Teamleader.__init__ stores the two credentials *)

Clients == {"A", "B"}
group(self) == StrV("group-" \o self)
secret(self) == StrV("secret-" \o self)

amount == 100
base_url(endpoint) == "https://www.teamleader.be/api/" \o endpoint \o ".php"

----------------------------------------------------------------------------
(* The HTTP responses a POST can get *)

ok == 200
bad_request == 400
unauthorized == 401
rate_limited == 505
Statuses == {ok, bad_request, unauthorized, rate_limited, 404, 500}

\* a response body: a JSON object (with or without a reason field), a JSON
\* array of records, or text that is not JSON
ObjectBody(hasReason, reason) ==
    [kind |-> "object", hasReason |-> hasReason, reason |-> reason, items |-> <<>>]
ArrayBody(items) ==
    [kind |-> "array", hasReason |-> FALSE, reason |-> "", items |-> items]
NotJson == [kind |-> "text", hasReason |-> FALSE, reason |-> "", items |-> <<>>]

Reasons == {"bad credentials", "slow down"}
Bodies ==
    {ObjectBody(TRUE, r) : r \in Reasons} \cup {ObjectBody(FALSE, ""), ArrayBody(<<>>), NotJson}
Responses == [status : Statuses, body : Bodies]
\* the answers tried on the calls that carry many arguments
WriteResponses ==
    {[status |-> ok, body |-> ObjectBody(FALSE, "")],
     [status |-> bad_request, body |-> ObjectBody(TRUE, "bad credentials")],
     [status |-> 500, body |-> NotJson]}

----------------------------------------------------------------------------
(* Teamleader._request *)

NoResponse == [status |-> 0, body |-> NotJson]
NoOutcome ==
    [kind |-> "none", exc |-> "", message |-> "", value |-> NotJson,
     api_response |-> NoResponse]
Return(body) ==
    [kind |-> "return", exc |-> "", message |-> "", value |-> body,
     api_response |-> NoResponse]
\* an exception of teamleader.exceptions, built with message= and api_response=
Raise(exc, message, r) ==
    [kind |-> "raise", exc |-> exc, message |-> message, value |-> NotJson,
     api_response |-> r]
\* an exception raised by Python itself or by the JSON decoder
RaiseBuiltin(exc) ==
    [kind |-> "raise", exc |-> exc, message |-> "", value |-> NotJson,
     api_response |-> NoResponse]
InvalidInputError(message) ==
    [kind |-> "raise", exc |-> "InvalidInputError", message |-> message,
     value |-> NotJson, api_response |-> NoResponse]

\* data['api_group'] = self.group ; data['api_secret'] = self.secret
set_api_group(data, self) == Put(data, "api_group", group(self))
set_api_secret(data, self) == Put(data, "api_secret", secret(self))

\* raise <exc>(message=response['reason'], api_response=r)
raise_api(exc, r) ==
    IF r.body.kind = "array" THEN RaiseBuiltin("TypeError")            \* list['reason']
    ELSE IF ~r.body.hasReason THEN RaiseBuiltin("KeyError")            \* no 'reason' key
    ELSE Raise(exc, r.body.reason, r)

\* lines 31-44: decode the body, then classify by status
classify_505_forgotten(r) ==
    IF r.body.kind = "text" THEN RaiseBuiltin("ValueError")
    ELSE IF r.status = unauthorized THEN raise_api("TeamleaderUnauthorizedError", r)
    ELSE IF r.status = bad_request THEN raise_api("TeamleaderBadRequestError", r)
    ELSE IF r.status = ok THEN Return(r.body)
    ELSE raise_api("TeamleaderUnknownAPIError", r)

classify(r) ==
    IF r.body.kind = "text" THEN RaiseBuiltin("ValueError")            \* r.json()
    ELSE IF r.status = unauthorized THEN raise_api("TeamleaderUnauthorizedError", r)
    ELSE IF r.status = rate_limited THEN raise_api("TeamleaderRateLimitExceededError", r)
    ELSE IF r.status = bad_request THEN raise_api("TeamleaderBadRequestError", r)
    ELSE IF r.status = ok THEN Return(r.body)
    ELSE raise_api("TeamleaderUnknownAPIError", r)

\* the POST _request puts on the wire
Post(endpoint, data, self, r) ==
    [url |-> base_url(endpoint), data |-> data, by |-> self, response |-> r]

----------------------------------------------------------------------------
(* A method call by a single caller: calls start from "idle" and end in    *)
(* "done"; Finish is the caller taking the result, after which the call's  *)
(* frame and payload are gone.                                             *)

NoCall == [op |-> "", self |-> "", args |-> <<>>, set |-> {}]
Omitted == [given |-> FALSE, d |-> EmptyDict]
Given(d) == [given |-> TRUE, d |-> d]

\* _request(endpoint, data={}) called by `self`, answered with response r:
\* `data` is the caller's dict, or the function's one default dict
_request(self, endpoint, data, r) ==
    LET d0 == IF data.given THEN data.d ELSE defaultData
        d2 == set_api_secret(set_api_group(d0, self), self)
    IN  /\ handed' = Append(handed, IF data.given THEN data.d ELSE defaultData)
        /\ posts' = Append(posts, Post(endpoint, d2, self, r))
        /\ defaultData' = IF data.given THEN defaultData ELSE d2
        /\ outcome' = classify(r)

\* the method raised before it reached _request
raised_locally(exc) ==
    /\ outcome' = exc
    /\ UNCHANGED <<handed, posts, defaultData>>

Begin(op, self, args, set) ==
    /\ pc' = "done"
    /\ call' = [op |-> op, self |-> self, args |-> args, set |-> set]
    /\ UNCHANGED <<varsGen, varsThr>>

get_users ==
    /\ pc = "idle"
    /\ \E self \in Clients, show_inactive_users \in BOOLEAN, r \in Responses :
        /\ Begin("get_users", self,
                 [show_inactive_users |-> BoolV(show_inactive_users)], {})
        /\ _request(self, "getUsers",
                    Given([show_inactive_users |-> int(BoolV(show_inactive_users))]), r)

get_departments ==
    /\ pc = "idle"
    /\ \E self \in Clients, r \in Responses :
        /\ Begin("get_departments", self, <<>>, {})
        /\ _request(self, "getDepartments", Omitted, r)

get_tags ==
    /\ pc = "idle"
    /\ \E self \in Clients, r \in Responses :
        /\ Begin("get_tags", self, <<>>, {})
        /\ _request(self, "getTags", Omitted, r)

ObjectTypes ==
    {"crm_companies", "crm_contacts", "crm_todos", "crm_callbacks", "crm_meetings",
     "inv_invoices", "inv_creditnotes", "pro_projects", "sale_sales", "ticket_tickets"}

get_segments ==
    /\ pc = "idle"
    /\ \E self \in Clients, object_type \in ObjectTypes \cup {"not_a_real_type", ""},
       r \in Responses :
        /\ Begin("get_segments", self, [object_type |-> StrV(object_type)], {})
        /\ IF object_type \notin ObjectTypes
           THEN raised_locally(InvalidInputError("Invalid contents of object_type."))
           ELSE _request(self, "getSegments",
                         Given([object_type |-> StrV(object_type)]), r)

Ids == {IntV(1), IntV(2)}

delete_contact ==
    /\ pc = "idle"
    /\ \E self \in Clients, contact_id \in Ids, r \in Responses :
        /\ Begin("delete_contact", self, [contact_id |-> contact_id], {})
        /\ _request(self, "deleteContact", Given([contact_id |-> contact_id]), r)

get_contact ==
    /\ pc = "idle"
    /\ \E self \in Clients, contact_id \in Ids, r \in Responses :
        /\ Begin("get_contact", self, [contact_id |-> contact_id], {})
        /\ _request(self, "getContact", Given([contact_id |-> contact_id]), r)

link_contact_company ==
    /\ pc = "idle"
    /\ \E self \in Clients, contact_id \in Ids, company_id \in Ids,
       function \in {None, StrV("HR manager")}, r \in Responses :
        /\ Begin("link_contact_company", self,
                 [contact_id |-> contact_id, company_id |-> company_id,
                  function |-> function],
                 IF function = None THEN {} ELSE {"function"})
        /\ _request(self, "linkContactToCompany",
                    Given([contact_id |-> contact_id, company_id |-> company_id,
                           mode |-> StrV("link"), function |-> function]), r)

unlink_contact_company ==
    /\ pc = "idle"
    /\ \E self \in Clients, contact_id \in Ids, company_id \in Ids, r \in Responses :
        /\ Begin("unlink_contact_company", self,
                 [contact_id |-> contact_id, company_id |-> company_id], {})
        /\ _request(self, "linkContactToCompany",
                    Given([contact_id |-> contact_id, company_id |-> company_id,
                           mode |-> StrV("unlink")]), r)

----------------------------------------------------------------------------
(* add_contact and update_contact *)

\* what a caller may pass for one parameter, as <<parameter, value>>
PlainChoices(params) == {<<p, StrV("x")>> : p \in params}
SharedChoices ==
    {<<"gender", StrV("M")>>, <<"gender", StrV("X")>>,
     <<"country", StrV("be")>>, <<"country", StrV("ZZ")>>, <<"country", IntV(32)>>,
     <<"language", StrV("NL")>>, <<"language", StrV("QQ")>>,
     <<"date_of_birth", DateV(7)>>, <<"date_of_birth", DateTimeV(7)>>,
     <<"date_of_birth", StrV("1970-01-08")>>,
     <<"tags", ListV(<<"vip">>)>>, <<"tags", ListV(<<"vip", "press">>)>>,
     <<"tags", StrV("vip")>>, <<"tags", None>>,
     <<"custom_fields", DictV(<< <<StrV("7"), StrV("blue")>> >>)>>,
     <<"custom_fields", DictV(<< <<StrV("7"), StrV("blue")>>, <<StrV("9"), IntV(3)>> >>)>>,
     <<"custom_fields", DictV(<< <<IntV(7), StrV("blue")>> >>)>>,
     <<"custom_fields", ListV(<<"7">>)>>}

\* the argument bindings of a call that sets at most n parameters itself
RECURSIVE Overrides(_, _, _)
Overrides(base, choices, n) ==
    IF n = 0 THEN {[args |-> base, set |-> {}]}
    ELSE LET prev == Overrides(base, choices, n - 1)
         IN  prev \cup {[args |-> [a.args EXCEPT ![c[1]] = c[2]],
                         set |-> a.set \cup {c[1]}] : a \in prev, c \in choices}

\* data = locals(): the frame's variables at that point, self among them
locals(self, args) == Put(args, "self", Object(self))

\* for key in data.keys(): if data[key] is None: del data[key]
\* (keys() is a list of its own, as in the Python 2 this code is written for,
\* so deleting while iterating is safe)
del_none(data) == [k \in {x \in DOMAIN data : data[x] /= None} |-> data[k]]

Genders == {StrV("M"), StrV("F"), StrV("U")}

\* try: pycountry.countries.get(alpha2=country.upper()) except: raise ...
country_invalid(country) ==
    IF country.t /= "str" THEN TRUE            \* no .upper(): AttributeError, caught
    ELSE countries_get_raises(upper(country.s))
language_invalid(language) ==
    IF language.t /= "str" THEN TRUE
    ELSE languages_get_raises(lower(language.s))

\* the validation with the date_of_birth check left out
validate_without_date_check(args, has_del_tags) ==
    IF args.gender /= None /\ args.gender \notin Genders
        THEN InvalidInputError("Invalid contents of argument gender.")
    ELSE IF args.tags.t /= "list"
        THEN InvalidInputError("Invalid contents of argument tags.")
    ELSE IF has_del_tags /\ args.del_tags.t /= "list"
        THEN InvalidInputError("Invalid contents of argument tags.")
    ELSE IF args.custom_fields.t /= "dict"
        THEN InvalidInputError("Invalid contents of argument custom_fields.")
    ELSE IF args.country /= None /\ country_invalid(args.country)
        THEN InvalidInputError("Invalid contents of argument country.")
    ELSE IF args.language /= None /\ language_invalid(args.language)
        THEN InvalidInputError("Invalid contents of argument language.")
    ELSE NoOutcome

\* the argument validation of add_contact (lines 140-162) and of
\* update_contact (lines 222-247): the InvalidInputError raised, or NoOutcome
validate(args, has_del_tags) ==
    IF args.gender /= None /\ args.gender \notin Genders
        THEN InvalidInputError("Invalid contents of argument gender.")
    ELSE IF args.tags.t /= "list"
        THEN InvalidInputError("Invalid contents of argument tags.")
    ELSE IF has_del_tags /\ args.del_tags.t /= "list"
        THEN InvalidInputError("Invalid contents of argument tags.")
    ELSE IF args.custom_fields.t /= "dict"
        THEN InvalidInputError("Invalid contents of argument custom_fields.")
    ELSE IF args.country /= None /\ country_invalid(args.country)
        THEN InvalidInputError("Invalid contents of argument country.")
    ELSE IF args.language /= None /\ language_invalid(args.language)
        THEN InvalidInputError("Invalid contents of argument language.")
    ELSE IF args.date_of_birth /= None /\ args.date_of_birth.t /= "date"
        THEN InvalidInputError("Invalid contents of argument date_of_birth.")
    ELSE NoOutcome

\* for custom_field_id, custom_field_value in <items>:
\*     data['custom_field_' + custom_field_id] = custom_field_value
\* str + non-str raises TypeError; the result is [err, data]
RECURSIVE set_custom_fields(_, _)
set_custom_fields(data, items) ==
    IF Len(items) = 0 THEN [err |-> NoOutcome, data |-> data]
    ELSE IF items[1][1].t /= "str" THEN [err |-> RaiseBuiltin("TypeError"), data |-> data]
    ELSE set_custom_fields(Put(data, "custom_field_" \o items[1][1].s, items[1][2]),
                           Tail(items))

\* data['dob'] = time.mktime(data.pop('date_of_birth').timetuple())
set_dob(data, date_of_birth) ==
    IF date_of_birth /= None
    THEN Put(Del(data, "date_of_birth"), "dob", mktime(date_of_birth))
    ELSE data

\* data['add_tag_by_string'] = ','.join(data.pop('tags'))
set_add_tags(data) ==
    Put(Del(data, "tags"), "add_tag_by_string", StrV(join(data["tags"].l)))
\* data['remove_tag_by_string'] = ','.join(data.pop('del_tags'))
set_remove_tags(data) ==
    Put(Del(data, "del_tags"), "remove_tag_by_string", StrV(join(data["del_tags"].l)))

AddContactPlain ==
    {"salutation", "telephone", "gsm", "website", "zipcode", "city", "street", "number",
     "description", "tracking", "tracking_long"}
AddContactDefaults ==
    [p \in AddContactPlain \cup {"country", "language", "gender", "date_of_birth",
                                 "newsletter"} |-> None]
    @@ [forename |-> StrV("Ann"), surname |-> StrV("Lee"), email |-> StrV("ann@lee.be"),
        tags |-> ListV(<<>>), automerge_by_name |-> BoolV(FALSE),
        automerge_by_email |-> BoolV(FALSE), custom_fields |-> DictV(<<>>)]
AddContactChoices ==
    PlainChoices(AddContactPlain) \cup SharedChoices \cup
    {<<"newsletter", BoolV(TRUE)>>, <<"newsletter", BoolV(FALSE)>>,
     <<"automerge_by_name", BoolV(TRUE)>>, <<"automerge_by_email", BoolV(TRUE)>>}

\* lines 165-178 of add_contact: the conversions, on the dict left by del_none
add_contact_convert(data, args) ==
    LET d1 == set_add_tags(data)
        cf == set_custom_fields(Del(d1, "custom_fields"), args.custom_fields.items)
        d3 == set_dob(cf.data, args.date_of_birth)
        d4 == IF args.newsletter /= None
              THEN Put(d3, "newsletter", int(args.newsletter)) ELSE d3
        d5 == Put(d4, "automerge_by_name", int(args.automerge_by_name))
        d6 == Put(d5, "automerge_by_email", int(args.automerge_by_email))
    IN  [err |-> cf.err, data |-> d6]

add_contact ==
    /\ pc = "idle"
    /\ \E self \in Clients, in \in Overrides(AddContactDefaults, AddContactChoices, MaxSet),
       r \in WriteResponses :
        LET data == del_none(locals(self, in.args))
            invalid == validate(in.args, FALSE)
            conv == add_contact_convert(data, in.args)
        IN  /\ Begin("add_contact", self, in.args, in.set)
            /\ IF invalid.kind = "raise" THEN raised_locally(invalid)
               ELSE IF conv.err.kind = "raise" THEN raised_locally(conv.err)
               ELSE _request(self, "addContact", Given(conv.data), r)

UpdateContactPlain ==
    {"forename", "surname", "email", "telephone", "gsm", "website", "zipcode", "city",
     "street", "number", "description"}
UpdateContactDefaults ==
    [p \in UpdateContactPlain \cup {"country", "language", "gender", "date_of_birth",
                                    "linked_company_ids"} |-> None]
    @@ [contact_id |-> IntV(1), track_changes |-> BoolV(TRUE), tags |-> ListV(<<>>),
        del_tags |-> ListV(<<>>), custom_fields |-> DictV(<<>>)]
UpdateContactChoices ==
    PlainChoices(UpdateContactPlain) \cup SharedChoices \cup
    {<<"track_changes", BoolV(FALSE)>>, <<"track_changes", BoolV(TRUE)>>,
     <<"del_tags", ListV(<<"old">>)>>, <<"del_tags", StrV("old")>>,
     <<"linked_company_ids", StrV("4,5")>>}

\* lines 250-258 of update_contact
update_contact_convert(data, args) ==
    LET d1 == set_remove_tags(set_add_tags(data))
        cf == set_custom_fields(Del(d1, "custom_fields"), args.custom_fields.items)
        d3 == set_dob(cf.data, args.date_of_birth)
    IN  [err |-> cf.err, data |-> d3]

update_contact ==
    /\ pc = "idle"
    /\ \E self \in Clients,
       in \in Overrides(UpdateContactDefaults, UpdateContactChoices, MaxSet),
       r \in WriteResponses :
        LET data == del_none(locals(self, in.args))
            invalid == validate(in.args, TRUE)
            conv == update_contact_convert(data, in.args)
        IN  /\ Begin("update_contact", self, in.args, in.set)
            /\ IF invalid.kind = "raise" THEN raised_locally(invalid)
               ELSE IF conv.err.kind = "raise" THEN raised_locally(conv.err)
               ELSE _request(self, "updateContact", Given(conv.data), r)

\* the caller takes what the call returned or raised
Finish ==
    /\ pc = "done"
    /\ pc' = "idle"
    /\ call' = NoCall
    /\ handed' = <<>>
    /\ posts' = <<>>
    /\ outcome' = NoOutcome
    /\ UNCHANGED <<defaultData, varsGen, varsThr>>

----------------------------------------------------------------------------
(* The generators get_contacts and get_contacts_by_company. Calling the    *)
(* method only creates the generator; its body runs as the consumer        *)
(* advances it, one action per stretch of code between two suspensions.    *)

NoGen ==
    [op |-> "", self |-> "", args |-> <<>>, pc |-> "none", data |-> EmptyDict,
     pageno |-> 0, there_are_more_pages |-> FALSE, contacts |-> <<>>, err |-> NoOutcome]

\* the server's answer to the k-th request of a listing: any page of at most
\* MaxPageLen records, all records distinct, and no records once it has
\* served MaxPages non-empty pages
NonEmptyServed == Cardinality({i \in DOMAIN served : Len(served[i]) > 0})
Page(k, n) == [i \in 1..n |-> [page |-> k, idx |-> i]]
Pages ==
    {Page(Len(served), n) :
        n \in 0..(IF NonEmptyServed < MaxPages THEN MaxPageLen ELSE 0)}
ListResponses ==
    {[status |-> ok, body |-> ArrayBody(p)] : p \in Pages}
    \cup {[status |-> st, body |-> ObjectBody(TRUE, "slow down")] :
            st \in {rate_limited, 500}}

GetContactsArgs ==
    [query : {None, StrV("ann")}, modified_since : {None, IntV(0)},
     filter_by_tag : {None, StrV("vip")}, segment_id : {None, IntV(5)},
     selected_customfields : {ListV(<<>>), ListV(<<"7">>), ListV(<<"7", "9">>)}]

get_contacts ==
    /\ gen.pc = "none"
    /\ \E self \in Clients, args \in GetContactsArgs :
        gen' = [NoGen EXCEPT !.op = "get_contacts", !.self = self, !.args = args,
                             !.pc = "created"]
    /\ UNCHANGED <<defaultData, served, yielded, requests, varsOps, varsThr>>

\* lines 312-322: the filter fields
filters(args) ==
    LET d1 == IF args.query /= None THEN Put(EmptyDict, "searchby", args.query)
              ELSE EmptyDict
        d2 == IF args.modified_since /= None
              THEN Put(d1, "modifiedsince", args.modified_since) ELSE d1
        d3 == IF args.filter_by_tag /= None
              THEN Put(d2, "filter_by_tag", args.filter_by_tag) ELSE d2
        d4 == IF args.segment_id /= None
              THEN Put(d3, "segment_id", args.segment_id) ELSE d3
    IN  IF Len(args.selected_customfields.l) > 0
        THEN Put(d4, "selected_customfields", StrV(join(args.selected_customfields.l)))
        ELSE d4

\* lines 312-325, run when the generator is first advanced
gc_prepare ==
    /\ gen.op = "get_contacts" /\ gen.pc = "created"
    /\ gen' = [gen EXCEPT !.data = filters(gen.args), !.there_are_more_pages = TRUE,
                          !.pageno = 0, !.pc = "while"]
    /\ UNCHANGED <<defaultData, served, yielded, requests, varsOps, varsThr>>

\* the page request with a one-based page number
page_data_one_based(pageno, data) ==
    Update([amount |-> IntV(amount), pageno |-> IntV(pageno + 1)], data)

\* line 327-328: page_data = {'amount': amount, 'pageno': pageno}; page_data.update(data)
page_data(pageno, data) ==
    Update([amount |-> IntV(amount), pageno |-> IntV(pageno)], data)

\* the loop going on only after a page of more than one record
take_response_short_page_stops(g, r) ==
    LET res == classify(r)
    IN  IF res.kind = "raise" THEN [g EXCEPT !.pc = "raised", !.err = res]
        ELSE [g EXCEPT !.contacts = res.value.items,
                       !.there_are_more_pages = Len(res.value.items) > 1,
                       !.pc = "for"]

\* what the generator does with the answer to a request: lines 329-330, or
\* the exception of _request leaving the generator
take_response(g, r) ==
    LET res == classify(r)
    IN  IF res.kind = "raise" THEN [g EXCEPT !.pc = "raised", !.err = res]
        ELSE [g EXCEPT !.contacts = res.value.items,
                       !.there_are_more_pages = Len(res.value.items) > 0,
                       !.pc = "for"]

\* the generator's request: the POST of _request (lines 28-30) and its answer
gen_request(endpoint, data, r) ==
    /\ requests' =
         Append(requests,
                Post(endpoint, set_api_secret(set_api_group(data, gen.self), gen.self),
                     gen.self, r))
    /\ served' = IF classify(r).kind = "return" THEN Append(served, r.body.items)
                 ELSE served
    /\ UNCHANGED <<defaultData, yielded, varsOps, varsThr>>

\* lines 326-330: the loop test, then one page request
gc_request ==
    /\ gen.op = "get_contacts" /\ gen.pc = "while" /\ gen.there_are_more_pages
    /\ \E r \in ListResponses :
        /\ gen' = take_response(gen, r)
        /\ gen_request("getContacts", page_data(gen.pageno, gen.data), r)

\* lines 331-332: yield the next record of the page
gc_yield ==
    /\ gen.op = "get_contacts" /\ gen.pc = "for" /\ Len(gen.contacts) > 0
    /\ yielded' = Append(yielded, Head(gen.contacts))
    /\ gen' = [gen EXCEPT !.contacts = Tail(gen.contacts)]
    /\ UNCHANGED <<defaultData, served, requests, varsOps, varsThr>>

\* line 333, at the end of the for loop: pageno += 1
gc_advance ==
    /\ gen.op = "get_contacts" /\ gen.pc = "for" /\ Len(gen.contacts) = 0
    /\ gen' = [gen EXCEPT !.pageno = gen.pageno + 1, !.pc = "while"]
    /\ UNCHANGED <<defaultData, served, yielded, requests, varsOps, varsThr>>

\* line 326: the loop test fails, the generator is exhausted
gc_stop ==
    /\ gen.op = "get_contacts" /\ gen.pc = "while" /\ ~gen.there_are_more_pages
    /\ gen' = [gen EXCEPT !.pc = "exhausted"]
    /\ UNCHANGED <<defaultData, served, yielded, requests, varsOps, varsThr>>

get_contacts_by_company ==
    /\ gen.pc = "none"
    /\ \E self \in Clients, company_id \in Ids :
        gen' = [NoGen EXCEPT !.op = "get_contacts_by_company", !.self = self,
                             !.args = [company_id |-> company_id], !.pc = "created"]
    /\ UNCHANGED <<defaultData, served, yielded, requests, varsOps, varsThr>>

\* line 359: the one request of get_contacts_by_company
gcbc_request ==
    /\ gen.op = "get_contacts_by_company" /\ gen.pc = "created"
    /\ \E r \in ListResponses :
        /\ gen' = take_response(gen, r)
        /\ gen_request("getContactsByCompany", [company_id |-> gen.args.company_id], r)

\* lines 360-361: yield the next record
gcbc_yield ==
    /\ gen.op = "get_contacts_by_company" /\ gen.pc = "for" /\ Len(gen.contacts) > 0
    /\ yielded' = Append(yielded, Head(gen.contacts))
    /\ gen' = [gen EXCEPT !.contacts = Tail(gen.contacts)]
    /\ UNCHANGED <<defaultData, served, requests, varsOps, varsThr>>

\* get_contacts_by_company asking for a further page after a non-empty one
gcbc_stop_paginated ==
    /\ gen.op = "get_contacts_by_company" /\ gen.pc = "for" /\ Len(gen.contacts) = 0
    /\ gen' = [gen EXCEPT !.pc = IF gen.there_are_more_pages THEN "created"
                                  ELSE "exhausted"]
    /\ UNCHANGED <<defaultData, served, yielded, requests, varsOps, varsThr>>

\* the for loop of line 360 ends: the generator is exhausted
gcbc_stop ==
    /\ gen.op = "get_contacts_by_company" /\ gen.pc = "for" /\ Len(gen.contacts) = 0
    /\ gen' = [gen EXCEPT !.pc = "exhausted"]
    /\ UNCHANGED <<defaultData, served, yielded, requests, varsOps, varsThr>>

\* the consumer drops the generator
gen_close ==
    /\ gen.pc /= "none"
    /\ gen' = NoGen
    /\ served' = <<>>
    /\ yielded' = <<>>
    /\ requests' = <<>>
    /\ UNCHANGED <<defaultData, varsOps, varsThr>>

----------------------------------------------------------------------------
(* Two threads, each with its own client, inside _request: the statements  *)
(* of lines 28, 29 and 30 are separate steps, and `data` is either the     *)
(* caller's fresh dict or the one default dict of the function.            *)

NoThreadCall == [given |-> FALSE, d |-> EmptyDict, endpoint |-> ""]
ThreadResponses ==
    {[status |-> ok, body |-> ArrayBody(<<>>)],
     [status |-> unauthorized, body |-> ObjectBody(TRUE, "bad credentials")]}

\* the method calls _request(endpoint, data) or _request(endpoint)
enter_request(t, endpoint, data) ==
    /\ tpc[t] = "idle"
    /\ tpc' = [tpc EXCEPT ![t] = "line28"]
    /\ tdata' = [tdata EXCEPT ![t] = [given |-> data.given, d |-> data.d,
                                       endpoint |-> endpoint]]
    /\ wire' = [wire EXCEPT ![t] = <<>>]
    /\ UNCHANGED <<defaultData, varsOps, varsGen>>

t_get_departments(t) == enter_request(t, "getDepartments", Omitted)
t_get_tags(t) == enter_request(t, "getTags", Omitted)
t_get_users(t) ==
    \E show_inactive_users \in BOOLEAN :
        enter_request(t, "getUsers",
                      Given([show_inactive_users |-> int(BoolV(show_inactive_users))]))

\* the dict `data` names in thread t
data_of(t) == IF tdata[t].given THEN tdata[t].d ELSE defaultData
store(t, d) ==
    IF tdata[t].given
    THEN /\ tdata' = [tdata EXCEPT ![t].d = d]
         /\ UNCHANGED defaultData
    ELSE /\ defaultData' = d
         /\ UNCHANGED tdata

\* line 28: data['api_group'] = self.group
t_line28(t) ==
    /\ tpc[t] = "line28"
    /\ store(t, set_api_group(data_of(t), t))
    /\ tpc' = [tpc EXCEPT ![t] = "line29"]
    /\ UNCHANGED <<wire, varsOps, varsGen>>

\* line 29: data['api_secret'] = self.secret
t_line29(t) ==
    /\ tpc[t] = "line29"
    /\ store(t, set_api_secret(data_of(t), t))
    /\ tpc' = [tpc EXCEPT ![t] = "line30"]
    /\ UNCHANGED <<wire, varsOps, varsGen>>

\* lines 30-44: the POST carries what `data` holds now; the answer ends the call
t_line30(t) ==
    /\ tpc[t] = "line30"
    /\ \E r \in ThreadResponses :
        wire' = [wire EXCEPT ![t] = <<[post |-> Post(tdata[t].endpoint, data_of(t), t, r),
                                       outcome |-> classify(r)]>>]
    /\ tpc' = [tpc EXCEPT ![t] = "idle"]
    /\ tdata' = [tdata EXCEPT ![t] = NoThreadCall]
    /\ UNCHANGED <<defaultData, varsOps, varsGen>>

----------------------------------------------------------------------------
Init ==
    /\ defaultData = EmptyDict
    /\ pc = "idle"
    /\ call = NoCall
    /\ handed = <<>>
    /\ posts = <<>>
    /\ outcome = NoOutcome
    /\ gen = NoGen
    /\ served = <<>>
    /\ yielded = <<>>
    /\ requests = <<>>
    /\ tpc = [t \in Clients |-> "idle"]
    /\ tdata = [t \in Clients |-> NoThreadCall]
    /\ wire = [t \in Clients |-> <<>>]

\* a single caller making one method call after another
Next ==
    \/ get_users
    \/ get_departments
    \/ get_tags
    \/ get_segments
    \/ delete_contact
    \/ get_contact
    \/ link_contact_company
    \/ unlink_contact_company
    \/ add_contact
    \/ update_contact
    \/ Finish

Spec == Init /\ [][Next]_vars

\* a consumer iterating a contact listing
NextGen ==
    \/ get_contacts
    \/ gc_prepare
    \/ gc_request
    \/ gc_yield
    \/ gc_advance
    \/ gc_stop
    \/ get_contacts_by_company
    \/ gcbc_request
    \/ gcbc_yield
    \/ gcbc_stop
    \/ gen_close

SpecGen == Init /\ [][NextGen]_vars

\* two threads calling methods of their clients at the same time
NextThreads ==
    \E t \in Clients :
        \/ t_get_departments(t)
        \/ t_get_tags(t)
        \/ t_get_users(t)
        \/ t_line28(t)
        \/ t_line29(t)
        \/ t_line30(t)

SpecThreads == Init /\ [][NextThreads]_vars

----------------------------------------------------------------------------
(* The claims *)

RECURSIVE Flatten(_)
Flatten(pages) == IF Len(pages) = 0 THEN <<>> ELSE Head(pages) \o Flatten(Tail(pages))

\* the wire contract of the API: every body is JSON, and every body that
\* comes with a status other than 200 is an object with a reason field
WithinWireContract(r) ==
    /\ r.body.kind /= "text"
    /\ r.status /= 200 => r.body.kind = "object" /\ r.body.hasReason

\* C1: the outcome of a request is decided by the status of its response:
\* 200 returns the decoded body unmodified, 401 raises the unauthorized
\* error, 400 the bad-request error, 505 the rate-limit error and any other
\* status the unknown-API error; each error carries the body's reason as its
\* message and the raw response (for responses within the wire contract).
C1_StatusDecidesOutcome ==
    pc = "done" /\ Len(posts) = 1 /\ WithinWireContract(posts[1].response) =>
        LET r == posts[1].response
        IN  IF r.status = 200
            THEN outcome.kind = "return" /\ outcome.value = r.body
            ELSE /\ outcome.kind = "raise"
                 /\ outcome.exc =
                      CASE r.status = 401 -> "TeamleaderUnauthorizedError"
                        [] r.status = 400 -> "TeamleaderBadRequestError"
                        [] r.status = 505 -> "TeamleaderRateLimitExceededError"
                        [] OTHER -> "TeamleaderUnknownAPIError"
                 /\ outcome.message = r.body.reason
                 /\ outcome.api_response = r

C1_Witness ==
    /\ pc = "done" /\ Len(posts) = 1
    /\ posts[1].response.status = 505
    /\ posts[1].response.body = ObjectBody(TRUE, "slow down")
    /\ outcome.exc = "TeamleaderRateLimitExceededError"
    /\ outcome.message = "slow down"

\* C2: when get_contacts is iterated to its end, the server's pages before
\* the first empty one were all non-empty, the records yielded are exactly
\* those pages concatenated in order, no request followed the empty page and
\* no error was raised; until then the records yielded and those of the
\* current page still to come are the pages served so far, in order.
C2_YieldsPagesInOrder ==
    gen.op = "get_contacts" =>
        /\ gen.pc \in {"for", "while", "exhausted"} =>
               yielded \o gen.contacts = Flatten(served)
        /\ \A i \in DOMAIN served : i < Len(served) => Len(served[i]) > 0
        /\ gen.pc = "exhausted" =>
               /\ Len(served) >= 1
               /\ Len(served[Len(served)]) = 0
               /\ yielded = Flatten(SubSeq(served, 1, Len(served) - 1))
               /\ gen.err = NoOutcome

C2_Witness ==
    /\ gen.op = "get_contacts" /\ gen.pc = "exhausted"
    /\ Len(served) = 3
    /\ Len(served[1]) = 2 /\ Len(served[2]) = 1 /\ Len(served[3]) = 0
    /\ Len(yielded) = 3

\* the validation failures C3 names
FailsValidation ==
    \/ /\ call.op = "get_segments"
       /\ call.args.object_type.s \notin
            {"crm_companies", "crm_contacts", "crm_todos", "crm_callbacks", "crm_meetings",
             "inv_invoices", "inv_creditnotes", "pro_projects", "sale_sales",
             "ticket_tickets"}
    \/ /\ call.op \in {"add_contact", "update_contact"}
       /\ \/ call.args.gender /= None
             /\ call.args.gender \notin {StrV("M"), StrV("F"), StrV("U")}
          \/ call.args.tags.t /= "list"
          \/ call.op = "update_contact" /\ call.args.del_tags.t /= "list"
          \/ call.args.custom_fields.t /= "dict"
          \/ call.args.date_of_birth /= None /\ call.args.date_of_birth.t /= "date"

\* C3: a call of get_segments, add_contact or update_contact with an argument
\* that fails validation raises InvalidInputError and issues no request,
\* whatever the other arguments are.
C3_InvalidInputSendsNothing ==
    pc = "done" /\ FailsValidation =>
        /\ outcome.kind = "raise"
        /\ outcome.exc = "InvalidInputError"
        /\ posts = <<>>
        /\ handed = <<>>

C3_Witness ==
    /\ pc = "done" /\ call.op = "update_contact"
    /\ call.args.date_of_birth.t = "datetime"
    /\ call.args.country = StrV("be")
    /\ outcome.exc = "InvalidInputError"
    /\ posts = <<>>

\* the key an argument goes under on the wire
WireName(p) ==
    CASE p = "tags" -> "add_tag_by_string"
      [] p = "del_tags" -> "remove_tag_by_string"
      [] p = "date_of_birth" -> "dob"
      [] OTHER -> p

\* the optional arguments of an operation, without the flags that are
\* always sent
OptionalArguments(op) ==
    CASE op = "add_contact" ->
           DOMAIN AddContactDefaults
             \ {"forename", "surname", "email", "automerge_by_name", "automerge_by_email"}
      [] op = "update_contact" ->
           DOMAIN UpdateContactDefaults \ {"contact_id", "track_changes"}
      [] op = "link_contact_company" -> {"function"}
      [] OTHER -> {}

\* C4: the payload handed to the request function holds no key, under the
\* argument's name or under its wire name, for an optional argument the
\* caller left unset.
C4_UnsetArgumentsAreOmitted ==
    pc = "done" /\ Len(handed) = 1 =>
        \A p \in OptionalArguments(call.op) \ call.set :
            /\ p \notin DOMAIN handed[1]
            /\ WireName(p) \notin DOMAIN handed[1]

\* C5: every POST carries the api_group and the api_secret of the client
\* whose method call issued it, in any interleaving of two clients' calls.
C5_PostCarriesOwnCredentials ==
    \A t \in Clients :
        wire[t] /= <<>> =>
            /\ wire[t][1].post.data["api_group"] = group(wire[t][1].post.by)
            /\ wire[t][1].post.data["api_secret"] = secret(wire[t][1].post.by)

\* C6 as stated: get_contacts_by_company pages: its k-th request carries the
\* zero-based page number k and the page size 100, and it ends only after an
\* empty page.
C6_ByCompanyPaginates ==
    gen.op = "get_contacts_by_company" =>
        /\ \A k \in DOMAIN requests :
              /\ {"amount", "pageno"} \subseteq DOMAIN requests[k].data
              /\ requests[k].data["amount"] = IntV(100)
              /\ requests[k].data["pageno"] = IntV(k - 1)
        /\ gen.pc = "exhausted" => Len(served[Len(served)]) = 0

\* C6 as amended: get_contacts_by_company issues exactly one request, which
\* carries the company_id and the credentials and neither a page number nor
\* a page size; it yields the records of that one response in order, each
\* once, and then ends, whether or not the response held records.
C6_ByCompanySingleRequest ==
    gen.op = "get_contacts_by_company" =>
        /\ Len(requests) <= 1
        /\ \A k \in DOMAIN requests :
              /\ DOMAIN requests[k].data = {"company_id", "api_group", "api_secret"}
              /\ requests[k].data["company_id"] = gen.args.company_id
        /\ gen.pc \in {"for", "exhausted"} =>
              /\ Len(requests) = 1 /\ Len(served) = 1
              /\ yielded \o gen.contacts = served[1]
        /\ gen.pc = "exhausted" => yielded = served[1]

C6_Witness ==
    /\ gen.op = "get_contacts_by_company" /\ gen.pc = "exhausted"
    /\ Len(requests) = 1
    /\ Len(yielded) = 2

\* the keys of a contact payload that are not custom-field keys
PlainKeys ==
    DOMAIN AddContactDefaults \cup DOMAIN UpdateContactDefaults
    \cup {"self", "add_tag_by_string", "remove_tag_by_string", "dob"}

\* C7: for add_contact and update_contact with a custom_fields mapping that
\* passes validation, each key k yields exactly one payload key
\* custom_field_k with the same value, no other custom_field_ key exists and
\* no key custom_fields remains.
C7_CustomFieldsBecomePrefixedKeys ==
    /\ pc = "done" /\ call.op \in {"add_contact", "update_contact"}
    /\ validate(call.args, call.op = "update_contact").kind = "none"
    =>
    /\ Len(handed) = 1
    /\ LET items == call.args.custom_fields.items
           key(i) == "custom_field_" \o items[i][1].s
       IN  /\ "custom_fields" \notin DOMAIN handed[1]
           /\ \A i \in DOMAIN items :
                 key(i) \in DOMAIN handed[1] /\ handed[1][key(i)] = items[i][2]
           /\ DOMAIN handed[1] \ PlainKeys = {key(i) : i \in DOMAIN items}

\* C8: a boolean flag in a payload is the integer 0 or 1, never a boolean;
\* add_contact always sends its two automerge flags and update_contact
\* always sends track_changes.
Flags ==
    {"show_inactive_users", "newsletter", "automerge_by_name", "automerge_by_email",
     "track_changes"}
C8_FlagsAreIntegers ==
    pc = "done" /\ Len(handed) = 1 =>
        /\ \A k \in Flags \cap DOMAIN handed[1] :
              handed[1][k].t = "int" /\ handed[1][k].n \in {0, 1}
        /\ call.op = "add_contact" =>
              {"automerge_by_name", "automerge_by_email"} \subseteq DOMAIN handed[1]
        /\ call.op = "update_contact" => "track_changes" \in DOMAIN handed[1]

\* C9: every value of a payload that add_contact or update_contact hands to
\* the request function is a string, an integer or a float.
C9_PayloadIsFlat ==
    pc = "done" /\ call.op \in {"add_contact", "update_contact"} /\ Len(handed) = 1 =>
        \A k \in DOMAIN handed[1] : handed[1][k].t \in {"str", "int", "float"}

\* the filter fields C10 names, from the arguments of the call
FilterOf(args, k) ==
    CASE k = "searchby" -> args.query
      [] k = "modifiedsince" -> args.modified_since
      [] k = "filter_by_tag" -> args.filter_by_tag
      [] k = "segment_id" -> args.segment_id
      [] k = "selected_customfields" ->
           IF args.selected_customfields = ListV(<<>>) THEN None
           ELSE IF args.selected_customfields = ListV(<<"7">>) THEN StrV("7")
           ELSE StrV("7,9")
FilterKeys ==
    {"searchby", "modifiedsince", "filter_by_tag", "segment_id", "selected_customfields"}

\* C10: the k-th request of get_contacts (k = 0, 1, ...) carries pageno = k,
\* amount = 100 and exactly the filter fields of the call, the same on every
\* page; there is one request per page served, so an iteration over n
\* non-empty pages and the empty page issues n + 1 requests.
C10_PageRequests ==
    gen.op = "get_contacts" =>
        /\ \A k \in DOMAIN requests :
              LET d == requests[k].data
              IN  /\ d["pageno"] = IntV(k - 1)
                  /\ d["amount"] = IntV(100)
                  /\ DOMAIN d \ {"pageno", "amount", "api_group", "api_secret"}
                       = {f \in FilterKeys : FilterOf(gen.args, f) /= None}
                  /\ \A f \in FilterKeys \cap DOMAIN d : d[f] = FilterOf(gen.args, f)
        /\ Len(requests) = Len(served) + (IF gen.pc = "raised" THEN 1 ELSE 0)
        /\ gen.pc = "exhausted" => Len(requests) = NonEmptyServed + 1

C10_Witness ==
    /\ gen.op = "get_contacts" /\ gen.pc = "exhausted"
    /\ Len(requests) = 3
    /\ gen.args.query /= None /\ gen.args.segment_id /= None
    /\ gen.args.selected_customfields = ListV(<<"7", "9">>)

====
